---- MODULE Spec2Model ----
(***************************************************************************)
(* Model of src/function.h: a type-erased callable container               *)
(* function<R(Args...)> with a one-pointer small buffer, a per-type        *)
(* descriptor (copy / move / destroy / invoke) and an empty descriptor.    *)
(*                                                                         *)
(* The storage cell does not describe itself: what a cell holds and what   *)
(* the active descriptor believes it holds are modelled separately, so a   *)
(* mismatch (a destroyed object read as live, a stale pointer deleted) is  *)
(* an observable event of the model and not ruled out by construction.     *)
(***************************************************************************)
EXTENDS Integers, FiniteSets, Sequences, TLC

\* ------------------------------------------------------------------------
\* Bounds of the exploration
\* ------------------------------------------------------------------------
NC == 2          \* number of named function objects the client program has
MaxHeap == 3     \* number of heap addresses; exhaustion raises bad_alloc
MaxVal == 2      \* the member of a callable has a value in 1..MaxVal
MaxArg == 1      \* call arguments are 0..MaxArg

\* ------------------------------------------------------------------------
\* Program constants
\* ------------------------------------------------------------------------
PtrSize == 8     \* sizeof(void*)  = sizeof(storage_t)
PtrAlign == 8    \* alignof(void*) = alignof(storage_t)

\* ------------------------------------------------------------------------
\* Concrete callable types bound in the explored programs.  Each is given
\* by the four properties fits_small inspects.  They are hand-written
\* function objects (a struct with an int operator()(int) const); a lambda's
\* closure type is a different case, see Closure below.
\*   SmallA, SmallB : one int member, implicitly declared (noexcept) move
\*                    operations; same layout, two types
\*   Word           : one pointer-sized member, noexcept move operations
\*   Thrower        : one int member; its move constructor and its move
\*                    assignment may throw
\* ------------------------------------------------------------------------
Types == {"SmallA", "SmallB", "Word", "Thrower"}

\* Further types, bound only where the storage decision itself is examined:
\*   Byte          : empty function object (size 1), noexcept moves
\*   AssignThrower : small, nothrow move-constructible, but its move
\*                   assignment may throw
\*   Closure       : the closure type of a lambda capturing one int:
\*                   nothrow move-constructible, but a closure type has no
\*                   move assignment, so is_nothrow_move_assignable_v is
\*                   false
\*   Wide          : over-aligned 16-byte function object
ProbeTypes == {"Byte", "AssignThrower", "Closure", "Wide"}

AllTypes == Types \cup ProbeTypes

SizeOf(T) ==
  CASE T = "Word" -> 8
    [] T = "Wide" -> 16
    [] T = "Byte" -> 1
    [] OTHER -> 4

AlignOf(T) ==
  CASE T = "Word" -> 8
    [] T = "Wide" -> 16
    [] T = "Byte" -> 1
    [] OTHER -> 4

NothrowMoveConstructible(T) == T # "Thrower"

NothrowMoveAssignable(T) == T \notin {"Thrower", "AssignThrower", "Closure"}

Vals == 1..MaxVal
Args == 0..MaxArg
Addrs == 1..MaxHeap
Null == 0

\* Named objects 1..NC; two temporaries (the one made by an assignment
\* operator, the one made by converting a callable argument); the local
\* buffer of swap is a bare storage cell.
Named == 1..NC
TmpAssign == NC + 1
TmpArg == NC + 2
Slots == 1..(NC + 2)
SwapBuf == NC + 3
Locs == 1..(NC + 3)

Empty == "empty"
Descs == Types \cup {Empty}

\* fits_small that admits a type as large as the cell
fits_small_le(T) ==
  /\ SizeOf(T) <= PtrSize
  /\ NothrowMoveConstructible(T)
  /\ PtrAlign % AlignOf(T) = 0
  /\ NothrowMoveAssignable(T)

\* details::fits_small<T>
fits_small(T) ==
  /\ SizeOf(T) < PtrSize
  /\ NothrowMoveConstructible(T)
  /\ PtrAlign % AlignOf(T) = 0
  /\ NothrowMoveAssignable(T)

\* ------------------------------------------------------------------------
\* Storage cells and heap objects
\* ------------------------------------------------------------------------
\* tag "uninit": never written;  "obj": a live T constructed in place;
\* "dead": bytes of a destroyed in-place object;  "ptr": the bytes of a
\* pointer (whether it is owned is decided by the descriptor, not the cell).
Uninit == [tag |-> "uninit", ty |-> "none", val |-> 0]
DeadCell == [tag |-> "dead", ty |-> "none", val |-> 0]
ObjCell(T, v) == [tag |-> "obj", ty |-> T, val |-> v]
PtrCell(p) == [tag |-> "ptr", ty |-> "none", val |-> p]

FreeObj == [live |-> FALSE, ty |-> "none", val |-> 0]
HeapObj(T, v) == [live |-> TRUE, ty |-> T, val |-> v]

FreeAddrs(h) == {p \in Addrs : ~h[p].live}

\* ------------------------------------------------------------------------
\* The world an operation runs in: the program state plus the environment's
\* choices for this operation (the junk read through a dangling reference,
\* the free address operator new hands out, the failure injected into the
\* allocation or into the callable's constructor) and what the operation
\* did (exception, result, allocations, deallocations, cell reads,
\* undefined-behaviour events).
\* ------------------------------------------------------------------------
Flag(w, ok, what) == IF ok THEN w ELSE [w EXCEPT !.ub = @ \cup {what}]

Throw(w, e) == [w EXCEPT !.exc = e]

\* The address operator new hands out: the environment's choice among the
\* free ones (any free one in a second allocation of the same operation),
\* Null when the heap is exhausted.
NewAddr(w) ==
  IF w.addr # Null /\ ~w.heap[w.addr].live THEN w.addr
  ELSE IF FreeAddrs(w.heap) = {} THEN Null
  ELSE CHOOSE p \in FreeAddrs(w.heap) : \A q \in FreeAddrs(w.heap) : p <= q

JunkAddr(w) == ((w.junk - 1) % MaxHeap) + 1

\* placement new of a T with value v into cell loc
Construct(w, loc, T, v) ==
  LET w1 == Flag(w, w.cell[loc].tag # "obj", "overwrite_live_object")
  IN [w1 EXCEPT !.cell[loc] = ObjCell(T, v), !.objs = @ + 1]

\* placement new of a pointer value into cell loc
StorePtr(w, loc, p) ==
  LET w1 == Flag(w, w.cell[loc].tag # "obj", "overwrite_live_object")
  IN [w1 EXCEPT !.cell[loc] = PtrCell(p)]

\* details::get<T>(data): where the T lives.  Inline: the cell itself.
\* Boxed: the pointer read out of the cell.
get(T, w, loc) ==
  IF fits_small(T)
    THEN [inHeap |-> FALSE, at |-> loc, ok |-> TRUE]
    ELSE IF w.cell[loc].tag = "ptr"
      THEN [inHeap |-> TRUE, at |-> w.cell[loc].val, ok |-> TRUE]
      ELSE [inHeap |-> TRUE, at |-> JunkAddr(w), ok |-> FALSE]

\* note that a cell was read through get<T>
Touch(w) == [w EXCEPT !.rd = TRUE]

\* is ref a live T
RefLive(T, w, ref) ==
  IF ref.inHeap
    THEN ref.ok /\ w.heap[ref.at].live /\ w.heap[ref.at].ty = T
    ELSE w.cell[ref.at].tag = "obj" /\ w.cell[ref.at].ty = T

\* the value read through ref (junk when ref does not designate a live T)
Load(T, w, ref) ==
  IF ~RefLive(T, w, ref) THEN w.junk
  ELSE IF ref.inHeap THEN w.heap[ref.at].val ELSE w.cell[ref.at].val

\* what calling a T holding v with argument x does: the call operators add
\* the member to the argument; Thrower's call operator throws on argument 0
Call(T, v, x) ==
  IF T = "Thrower" /\ x = 0
    THEN [exc |-> "callable_threw", res |-> 0]
    ELSE [exc |-> "none", res |-> v + x]

\* ------------------------------------------------------------------------
\* Primitive effects used by the descriptor operations
\* ------------------------------------------------------------------------
\* get<T>(cell)->~T() on an in-place object
DestroyObj(w, loc, T) ==
  IF w.cell[loc].tag = "obj" /\ w.cell[loc].ty = T
    THEN [w EXCEPT !.cell[loc] = DeadCell, !.objs = @ - 1]
    ELSE Flag(w, FALSE, "destroy_dead_object")

\* delete p, p designating a T
Delete(w, ref, T) ==
  IF RefLive(T, w, ref)
    THEN [w EXCEPT !.heap[ref.at] = FreeObj, !.nf = @ + 1]
    ELSE Flag(w, FALSE, "delete_not_live")

\* operator new throws: the environment injects the failure, or no address
\* is free
AllocFails(w) == w.fail = "alloc" \/ NewAddr(w) = Null

\* new T(v): operator new, then T's constructor; the language releases the
\* memory again when the constructor throws.  The pointer is left in w.p.
NewT(w, T, v, ctorThrows) ==
  LET p == NewAddr(w)
  IN IF AllocFails(w) THEN Throw(w, "bad_alloc")
     ELSE IF ctorThrows
       THEN [w EXCEPT !.exc = "ctor_threw", !.na = @ + 1, !.nf = @ + 1]
       ELSE [w EXCEPT !.heap[p] = HeapObj(T, v), !.na = @ + 1, !.p = p]

\* read the T that cell src holds according to descriptor T
ReadThrough(w, T, src) ==
  Flag(Touch(w), RefLive(T, w, get(T, w, src)), "read_not_live")

\* ------------------------------------------------------------------------
\* type_descriptor<R, Args...>
\* ------------------------------------------------------------------------
\* move_val_to_storage that boxes every type
move_val_to_storage_boxed(w, T, loc, v) ==
  LET w1 == NewT(w, T, v, w.fail = "ctor" /\ ~NothrowMoveConstructible(T))
  IN IF w1.exc # "none" THEN w1 ELSE StorePtr(w1, loc, w1.p)

\* move_val_to_storage<T>(storage, val)
move_val_to_storage(w, T, loc, v) ==
  IF fits_small(T)
    THEN Construct(w, loc, T, v)
    ELSE LET w1 == NewT(w, T, v,
                        w.fail = "ctor" /\ ~NothrowMoveConstructible(T))
         IN IF w1.exc # "none" THEN w1 ELSE StorePtr(w1, loc, w1.p)

\* copy whose boxed branch copies the pointer instead of the object
copy_shallow(d, w, src, dst) ==
  IF d = Empty THEN w
  ELSE IF fits_small(d)
    THEN LET w1 == ReadThrough(w, d, src)
         IN IF w.fail = "ctor" THEN Throw(w1, "ctor_threw")
            ELSE Construct(w1, dst, d, Load(d, w, get(d, w, src)))
    ELSE StorePtr(Touch(w), dst, get(d, w, src).at)

\* copy whose boxed branch allocates raw memory and constructs into it
\* without releasing the memory when the constructor throws
copy_leak_on_throw(d, w, src, dst) ==
  IF d = Empty THEN w
  ELSE IF fits_small(d)
    THEN LET w1 == ReadThrough(w, d, src)
         IN IF w.fail = "ctor" THEN Throw(w1, "ctor_threw")
            ELSE Construct(w1, dst, d, Load(d, w, get(d, w, src)))
    ELSE IF AllocFails(w) THEN Throw(w, "bad_alloc")
    ELSE LET w1 == ReadThrough(w, d, src)
             w2 == NewT(w1, d, Load(d, w, get(d, w, src)), FALSE)
         IN IF w.fail = "ctor" THEN Throw(w2, "ctor_threw")
            ELSE StorePtr(w2, dst, w2.p)

\* descriptor->copy(src, dst); d = Empty is get_empty_func_descriptor().
\* In the boxed branch, new T(*get<T>(src)) calls operator new before it
\* evaluates the initializer: when the allocation fails the source cell is
\* never read.
copy(d, w, src, dst) ==
  IF d = Empty THEN w
  ELSE IF fits_small(d)
    THEN LET w1 == ReadThrough(w, d, src)
         IN IF w.fail = "ctor" THEN Throw(w1, "ctor_threw")
            ELSE Construct(w1, dst, d, Load(d, w, get(d, w, src)))
    ELSE IF AllocFails(w) THEN Throw(w, "bad_alloc")
    ELSE LET w1 == ReadThrough(w, d, src)
             w2 == NewT(w1, d, Load(d, w, get(d, w, src)), w.fail = "ctor")
         IN IF w2.exc # "none" THEN w2 ELSE StorePtr(w2, dst, w2.p)

\* move whose boxed branch move-constructs a new heap object and deletes the
\* old one instead of relocating the pointer
move_reallocating(d, w, src, dst) ==
  IF d = Empty THEN w
  ELSE IF fits_small(d)
    THEN LET w1 == ReadThrough(w, d, src)
             w2 == Construct(w1, dst, d, Load(d, w, get(d, w, src)))
         IN DestroyObj(w2, src, d)
    ELSE LET w1 == ReadThrough(w, d, src)
             w2 == Delete(w1, get(d, w, src), d)
             w3 == NewT(w2, d, Load(d, w, get(d, w, src)), FALSE)
         IN StorePtr(w3, dst, w3.p)

\* move whose inline branch does not end the lifetime of the moved-from object
move_no_destroy(d, w, src, dst) ==
  IF d = Empty THEN w
  ELSE IF fits_small(d)
    THEN LET w1 == ReadThrough(w, d, src)
         IN Construct(w1, dst, d, Load(d, w, get(d, w, src)))
    ELSE LET ref == get(d, w, src)
             w1 == Flag(Touch(w), ref.ok, "read_garbage_pointer")
         IN StorePtr(w1, dst, ref.at)

\* descriptor->move(src, dst)
move(d, w, src, dst) ==
  IF d = Empty THEN w
  ELSE IF fits_small(d)
    THEN LET w1 == ReadThrough(w, d, src)
             w2 == Construct(w1, dst, d, Load(d, w, get(d, w, src)))
         IN DestroyObj(w2, src, d)
    ELSE LET ref == get(d, w, src)
             w1 == Flag(Touch(w), ref.ok, "read_garbage_pointer")
         IN StorePtr(w1, dst, ref.at)

\* destroy that ends the boxed object's lifetime but never releases its memory
destroy_no_delete(d, w, src) ==
  IF d = Empty THEN w
  ELSE IF fits_small(d)
    THEN DestroyObj(Touch(w), src, d)
    ELSE Touch(w)

\* destroy whose inline branch is missing: only boxed values are released
destroy_boxed_only(d, w, src) ==
  IF d = Empty THEN w
  ELSE IF fits_small(d)
    THEN Touch(w)
    ELSE Delete(Touch(w), get(d, w, src), d)

\* descriptor->destroy(src)
destroy(d, w, src) ==
  IF d = Empty THEN w
  ELSE IF fits_small(d)
    THEN DestroyObj(Touch(w), src, d)
    ELSE Delete(Touch(w), get(d, w, src), d)

\* invoke whose empty descriptor calls through the cell instead of throwing
invoke_unguarded(d, w, src, x) ==
  IF d = Empty
    THEN [Flag(Touch(w), FALSE, "read_not_live") EXCEPT !.res = w.junk]
  ELSE LET w1 == ReadThrough(w, d, src)
           r == Call(d, Load(d, w, get(d, w, src)), x)
       IN [w1 EXCEPT !.exc = r.exc, !.res = r.res]

\* invoke that consumes the callable: the value is destroyed after the call
invoke_consuming(d, w, src, x) ==
  IF d = Empty THEN Throw(w, "bad_function_call")
  ELSE LET w1 == ReadThrough(w, d, src)
           r == Call(d, Load(d, w, get(d, w, src)), x)
           w2 == destroy(d, w1, src)
       IN [w2 EXCEPT !.exc = r.exc, !.res = r.res]

\* descriptor->invoke(src, args...)
invoke(d, w, src, x) ==
  IF d = Empty THEN Throw(w, "bad_function_call")
  ELSE LET w1 == ReadThrough(w, d, src)
           r == Call(d, Load(d, w, get(d, w, src)), x)
       IN [w1 EXCEPT !.exc = r.exc, !.res = r.res]

\* ------------------------------------------------------------------------
\* function<R(Args...)>
\* ------------------------------------------------------------------------
\* the object's memory goes away (end of lifetime, or a constructor that
\* threw): nothing of it can be named any more
Release(w, x) ==
  [w EXCEPT !.live[x] = FALSE, !.desc[x] = Empty, !.cell[x] = Uninit]

\* function() noexcept
function_default(w, x) ==
  [w EXCEPT !.live[x] = TRUE, !.desc[x] = Empty]

\* function(function const& other)
function_copy(w, x, other) ==
  LET w1 == [w EXCEPT !.desc[x] = w.desc[other]]
      w2 == copy(w1.desc[other], w1, other, x)
  IN IF w2.exc # "none" THEN Release(w2, x)
     ELSE [w2 EXCEPT !.live[x] = TRUE]

\* move constructor that leaves the source's descriptor in place
function_move_keep_source(w, x, other) ==
  LET w1 == [w EXCEPT !.desc[x] = w.desc[other]]
      w2 == move(w1.desc[other], w1, other, x)
  IN [w2 EXCEPT !.live[x] = TRUE]

\* function(function&& other) noexcept
function_move(w, x, other) ==
  LET w1 == [w EXCEPT !.desc[x] = w.desc[other]]
      w2 == move(w1.desc[other], w1, other, x)
  IN [w2 EXCEPT !.desc[other] = Empty, !.live[x] = TRUE]

\* template <typename T> function(T val)
function_T(w, x, T, v) ==
  LET w1 == [w EXCEPT !.desc[x] = T]
      w2 == move_val_to_storage(w1, T, x, v)
  IN IF w2.exc # "none" THEN Release(w2, x)
     ELSE [w2 EXCEPT !.live[x] = TRUE]

\* swap that exchanges the descriptors before the third move, which is then
\* dispatched through the wrong descriptor
swap_desc_early(w, this, other) ==
  LET w1 == move(w.desc[other], w, other, SwapBuf)
      w2 == move(w1.desc[this], w1, this, other)
      w3 == [w2 EXCEPT !.desc[this] = w2.desc[other],
                       !.desc[other] = w2.desc[this]]
      w4 == move(w3.desc[other], w3, SwapBuf, this)
  IN [w4 EXCEPT !.cell[SwapBuf] = Uninit]

\* swap that shuttles the storage but leaves the descriptors where they were
swap_storage_only(w, this, other) ==
  LET w1 == move(w.desc[other], w, other, SwapBuf)
      w2 == move(w1.desc[this], w1, this, other)
      w3 == move(w2.desc[other], w2, SwapBuf, this)
  IN [w3 EXCEPT !.cell[SwapBuf] = Uninit]

\* swap that moves this into other and other back, without the buffer
swap_without_buffer(w, this, other) ==
  LET w1 == move(w.desc[this], w, this, other)
      w2 == move(w1.desc[other], w1, other, this)
  IN [w2 EXCEPT !.desc[this] = w2.desc[other],
                !.desc[other] = w2.desc[this],
                !.cell[SwapBuf] = Uninit]

\* void swap(function& other)
swap(w, this, other) ==
  LET w1 == move(w.desc[other], w, other, SwapBuf)
      w2 == move(w1.desc[this], w1, this, other)
      w3 == move(w2.desc[other], w2, SwapBuf, this)
  IN [w3 EXCEPT !.desc[this] = w3.desc[other],
                !.desc[other] = w3.desc[this],
                !.cell[SwapBuf] = Uninit]

\* ~function()
dtor(w, x) ==
  Release(destroy(w.desc[x], w, x), x)

\* copy-assignment that destroys the old value and copies in place
op_assign_copy_in_place(w, this, rhs) ==
  IF this # rhs
    THEN LET w1 == destroy(w.desc[this], w, this)
             w2 == copy(w1.desc[rhs], w1, rhs, this)
         IN IF w2.exc # "none" THEN w2
            ELSE [w2 EXCEPT !.desc[this] = w2.desc[rhs]]
    ELSE w

\* copy-assignment without the test for self-assignment
op_assign_copy_unguarded(w, this, rhs) ==
  LET w1 == function_copy(w, TmpAssign, rhs)
  IN IF w1.exc # "none" THEN w1
     ELSE dtor(swap(w1, TmpAssign, this), TmpAssign)

\* function& operator=(function const& rhs)
op_assign_copy(w, this, rhs) ==
  IF this # rhs
    THEN LET w1 == function_copy(w, TmpAssign, rhs)
         IN IF w1.exc # "none" THEN w1
            ELSE dtor(swap(w1, TmpAssign, this), TmpAssign)
    ELSE w

\* move-assignment that only swaps the operands
op_assign_move_by_swap(w, this, rhs) ==
  IF this # rhs THEN swap(w, rhs, this) ELSE w

\* function& operator=(function&& rhs) noexcept
op_assign_move(w, this, rhs) ==
  IF this # rhs
    THEN dtor(swap(function_move(w, TmpAssign, rhs), TmpAssign, this),
              TmpAssign)
    ELSE w

\* operator bool that inspects the storage cell instead of the descriptor
op_bool_by_storage(w, x) == w.cell[x].tag \in {"obj", "ptr"}

\* explicit operator bool() const noexcept
op_bool(w, x) == Empty # w.desc[x]

\* R operator()(Args... args) const
op_call(w, x, arg) == invoke(w.desc[x], w, x, arg)

\* get_target that compares the layout of the bound type and of T instead
\* of the identity of their descriptors
get_target_by_layout(w, x, T) ==
  IF ~op_bool(w, x) \/ SizeOf(w.desc[x]) # SizeOf(T)
       \/ fits_small(w.desc[x]) # fits_small(T)
    THEN [w EXCEPT !.res = Null]
    ELSE LET ref == get(T, w, x)
         IN [Touch(w) EXCEPT !.res = Load(T, w, ref)]

\* get_target<T>() const: the T pointed to, or nullptr
get_target(w, x, T) ==
  IF ~op_bool(w, x) \/ w.desc[x] # T
    THEN [w EXCEPT !.res = Null]
    ELSE LET ref == get(T, w, x)
         IN [Touch(w) EXCEPT !.res = Load(T, w, ref)]

\* target<T>(), mutable and const overloads
target(w, x, T) == get_target(w, x, T)

target_const(w, x, T) == get_target(w, x, T)

\* ------------------------------------------------------------------------
\* State
\* ------------------------------------------------------------------------
VARIABLES
  live,   \* live[s]: the function object in slot s is within its lifetime
  desc,   \* desc[s]: its active descriptor
  cell,   \* cell[l]: content of the storage cell at l
  heap,   \* heap[p]: the heap object at address p
  objs    \* number of in-place objects constructed and not yet destroyed

vars == <<live, desc, cell, heap, objs>>

Fails == {"none", "alloc", "ctor"}

\* what the environment decides for one operation: the address the allocator
\* hands out and the failure injected
AddrChoices == IF FreeAddrs(heap) = {} THEN {Null} ELSE FreeAddrs(heap)

Envs == [addr : AddrChoices, fail : Fails]

NoEnv == [addr |-> Null, fail |-> "none"]

\* the environment only has a say where the operation allocates or runs a
\* constructor of the callable that is allowed to throw
BindEnvs(T) == IF fits_small(T) THEN {NoEnv} ELSE Envs

\* the world an operation starts in
World(junk, e) ==
  [live |-> live, desc |-> desc, cell |-> cell, heap |-> heap, objs |-> objs,
   junk |-> junk, addr |-> e.addr, fail |-> e.fail,
   exc |-> "none", res |-> 0, p |-> Null,
   na |-> 0, nf |-> 0, rd |-> FALSE, ub |-> {}]

\* the operation's result becomes the program state
Commit(w0) ==
  \E w \in {w0} :
    /\ live' = w.live
    /\ desc' = w.desc
    /\ cell' = w.cell
    /\ heap' = w.heap
    /\ objs' = w.objs

Init ==
  /\ live = [s \in Slots |-> FALSE]
  /\ desc = [s \in Slots |-> Empty]
  /\ cell = [l \in Locs |-> Uninit]
  /\ heap = [p \in Addrs |-> FreeObj]
  /\ objs = 0

\* ------------------------------------------------------------------------
\* Statements of the client program, run in the current state
\* ------------------------------------------------------------------------
\* function f;
RunDefaultConstruct(x) == function_default(World(1, NoEnv), x)

\* function f(val);  val a T holding v
RunBind(x, T, v, e) == function_T(World(1, e), x, T, v)

\* function f(g);
RunCopyConstruct(x, y, e) == function_copy(World(1, e), x, y)

\* function f(std::move(g));
RunMoveConstruct(x, y) == function_move(World(1, NoEnv), x, y)

\* f = g;
RunCopyAssign(x, y, e) == op_assign_copy(World(1, e), x, y)

\* f = std::move(g);
RunMoveAssign(x, y) == op_assign_move(World(1, NoEnv), x, y)

\* f = val;  the argument is converted by function(T) into a temporary,
\* which is move-assigned from and then destroyed
RunAssignValue(x, T, v, e) ==
  LET w1 == function_T(World(1, e), TmpArg, T, v)
  IN IF w1.exc # "none" THEN w1
     ELSE dtor(op_assign_move(w1, x, TmpArg), TmpArg)

\* f.swap(g);  junk is what a read of an already destroyed object yields
RunSwap(x, y, junk) == swap(World(junk, NoEnv), x, y)

\* f goes out of scope
RunDestroy(x) == dtor(World(1, NoEnv), x)

\* f(arg)
RunInvoke(x, arg) == op_call(World(1, NoEnv), x, arg)

\* f.target<T>()
RunTarget(x, T) == target(World(1, NoEnv), x, T)

\* std::as_const(f).target<T>()
RunTargetConst(x, T) == target_const(World(1, NoEnv), x, T)

\* bool(f)
RunBool(x) == op_bool(World(1, NoEnv), x)

\* only swapping an object with itself can read an object it has destroyed
SwapJunk(x, y) == IF x = y THEN Vals ELSE {1}

\* ------------------------------------------------------------------------
\* Operations
\* ------------------------------------------------------------------------
DefaultConstruct(x) ==
  /\ ~live[x]
  /\ Commit(RunDefaultConstruct(x))

Bind(x, T, v) ==
  /\ ~live[x]
  /\ \E e \in BindEnvs(T) : Commit(RunBind(x, T, v, e))

CopyConstruct(x, y) ==
  /\ ~live[x] /\ live[y]
  /\ \E e \in Envs : Commit(RunCopyConstruct(x, y, e))

MoveConstruct(x, y) ==
  /\ ~live[x] /\ live[y]
  /\ Commit(RunMoveConstruct(x, y))

CopyAssign(x, y) ==
  /\ live[x] /\ live[y]
  /\ \E e \in Envs : Commit(RunCopyAssign(x, y, e))

MoveAssign(x, y) ==
  /\ live[x] /\ live[y]
  /\ Commit(RunMoveAssign(x, y))

AssignValue(x, T, v) ==
  /\ live[x]
  /\ \E e \in BindEnvs(T) : Commit(RunAssignValue(x, T, v, e))

Swap(x, y) ==
  /\ live[x] /\ live[y]
  /\ \E junk \in SwapJunk(x, y) : Commit(RunSwap(x, y, junk))

Destroy(x) ==
  /\ live[x]
  /\ Commit(RunDestroy(x))

Invoke(x, arg) ==
  /\ live[x]
  /\ Commit(RunInvoke(x, arg))

Target(x, T) ==
  /\ live[x]
  /\ Commit(RunTarget(x, T))

Bool(x) ==
  /\ live[x]
  /\ RunBool(x) \in BOOLEAN
  /\ UNCHANGED vars

Next ==
  \/ \E x \in Named : DefaultConstruct(x)
  \/ \E x \in Named, T \in Types, v \in Vals : Bind(x, T, v)
  \/ \E x \in Named, y \in Named : CopyConstruct(x, y)
  \/ \E x \in Named, y \in Named : MoveConstruct(x, y)
  \/ \E x \in Named, y \in Named : CopyAssign(x, y)
  \/ \E x \in Named, y \in Named : MoveAssign(x, y)
  \/ \E x \in Named, T \in Types, v \in Vals : AssignValue(x, T, v)
  \/ \E x \in Named, y \in Named : Swap(x, y)
  \/ \E x \in Named : Destroy(x)
  \/ \E x \in Named, arg \in Args : Invoke(x, arg)
  \/ \E x \in Named, T \in Types : Target(x, T)
  \/ \E x \in Named : Bool(x)

Spec == Init /\ [][Next]_vars

\* ------------------------------------------------------------------------
\* Every way the next statement of the client program can run
\* ------------------------------------------------------------------------
LiveNamed == {x \in Named : live[x]}
FreeNamed == {x \in Named : ~live[x]}

Outcomes ==
  {RunDefaultConstruct(x) : x \in FreeNamed}
  \cup UNION {{RunBind(i[1], i[2], i[3], e) : e \in BindEnvs(i[2])} :
               i \in FreeNamed \X Types \X Vals}
  \cup {RunCopyConstruct(i[1], i[2], i[3]) :
          i \in FreeNamed \X LiveNamed \X Envs}
  \cup {RunMoveConstruct(i[1], i[2]) : i \in FreeNamed \X LiveNamed}
  \cup {RunCopyAssign(i[1], i[2], i[3]) :
          i \in LiveNamed \X LiveNamed \X Envs}
  \cup {RunMoveAssign(i[1], i[2]) : i \in LiveNamed \X LiveNamed}
  \cup UNION {{RunAssignValue(i[1], i[2], i[3], e) :
                 e \in BindEnvs(i[2])} :
               i \in LiveNamed \X Types \X Vals}
  \cup UNION {{RunSwap(i[1], i[2], junk) : junk \in SwapJunk(i[1], i[2])} :
               i \in LiveNamed \X LiveNamed}
  \cup {RunDestroy(x) : x \in LiveNamed}
  \cup {RunInvoke(i[1], i[2]) : i \in LiveNamed \X Args}
  \cup {RunTarget(i[1], i[2]) : i \in LiveNamed \X Types}

\* ------------------------------------------------------------------------
\* Vocabulary of the properties
\* ------------------------------------------------------------------------
\* the spec's inline-eligibility rule, stated on the type's properties
MeetsInlineRule(T) ==
  /\ SizeOf(T) < PtrSize
  /\ PtrAlign % AlignOf(T) = 0
  /\ NothrowMoveConstructible(T)
  /\ NothrowMoveAssignable(T)

InlineTypes == {T \in Types : MeetsInlineRule(T)}
BoxedTypes == {T \in Types : ~MeetsInlineRule(T)}

\* the value a container with descriptor d, cell c owns in heap h:
\* 0 for the empty descriptor, -1 when the cell is not what d expects
Val(d, c, h) ==
  IF d = Empty THEN 0
  ELSE IF d \in InlineTypes
    THEN IF c.tag = "obj" /\ c.ty = d THEN c.val ELSE -1
    ELSE IF c.tag = "ptr" /\ h[c.val].live /\ h[c.val].ty = d
      THEN h[c.val].val ELSE -1

\* the heap address a container with descriptor d and cell c owns, or Null
Owned(d, c) ==
  IF d \in BoxedTypes /\ c.tag = "ptr" THEN c.val ELSE Null

\* the same, of slot s in world w, and in the current state
ValIn(w, s) == Val(w.desc[s], w.cell[s], w.heap)
OwnedIn(w, s) == Owned(w.desc[s], w.cell[s])
ValOf(s) == Val(desc[s], cell[s], heap)
OwnedBy(s) == Owned(desc[s], cell[s])

Owners(p) == {s \in Slots : live[s] /\ OwnedBy(s) = p}

LiveAddrs(h) == {p \in Addrs : h[p].live}

\* storage consistent with the active descriptor
Consistent(s) ==
  IF desc[s] = Empty THEN cell[s].tag # "obj"
  ELSE IF desc[s] \in InlineTypes
    THEN cell[s].tag = "obj" /\ cell[s].ty = desc[s]
    ELSE /\ cell[s].tag = "ptr"
         /\ heap[cell[s].val].live
         /\ heap[cell[s].val].ty = desc[s]

\* the statement completed without an exception
Ok(w) == w.exc = "none"

\* the program state of w is the current one
SameState(w) ==
  /\ w.live = live /\ w.desc = desc /\ w.cell = cell
  /\ w.heap = heap /\ w.objs = objs

\* slot s is, in w, as it is now: lifetime, descriptor, cell and value
SameSlot(w, s) ==
  /\ w.live[s] = live[s] /\ w.desc[s] = desc[s]
  /\ w.cell[s] = cell[s] /\ ValIn(w, s) = ValOf(s)
\* what invoking slot s with arg yields in the program state of w
InvokeIn(w, s, arg) ==
  LET r == op_call([w EXCEPT !.exc = "none", !.res = 0], s, arg)
  IN <<r.exc, r.res>>

\* ------------------------------------------------------------------------
\* Properties
\* ------------------------------------------------------------------------
\* C1: after any sequence of default-construct, bind, copy-construct,
\* move-construct, copy-assign, move-assign, swap and destroy, every live
\* container's storage is consistent with its active descriptor: with the
\* empty descriptor it holds no live value, with an inline type's descriptor
\* it holds a live value of that type in its cell, with a boxed type's
\* descriptor it holds a pointer to a live heap object of that type.
C1_StorageConsistent == \A s \in Slots : live[s] => Consistent(s)

\* a moved-from container still holding the bytes of the pointer that the
\* other container now owns
C1_Witness ==
  \E x \in LiveNamed, y \in LiveNamed :
    /\ desc[x] = Empty /\ cell[x].tag = "ptr"
    /\ desc[y] \in BoxedTypes /\ cell[y] = cell[x]
    /\ Consistent(x) /\ Consistent(y)

\* C2: every live heap object is owned by exactly one live container (a copy
\* and its original never share one), no statement frees a heap object that
\* is not live (no double free), and once every container is destroyed no
\* heap object remains allocated.
C2_SoleOwnership ==
  /\ \A p \in Addrs : heap[p].live => Cardinality(Owners(p)) = 1
  /\ \A w \in Outcomes : "delete_not_live" \notin w.ub
  /\ (\A s \in Slots : ~live[s]) => LiveAddrs(heap) = {}

\* two containers holding equal boxed values, each in its own heap object,
\* and destroying either frees exactly one object
C2_Witness ==
  \E x \in LiveNamed, y \in LiveNamed :
    /\ x # y /\ desc[x] \in BoxedTypes /\ desc[x] = desc[y]
    /\ ValOf(x) = ValOf(y) /\ OwnedBy(x) # OwnedBy(y)
    /\ LiveAddrs(heap) = {OwnedBy(x), OwnedBy(y)}
    /\ RunDestroy(x).nf = 1

\* C3: copy-assignment gives the strong guarantee: when copying the right-hand
\* side fails (bad_alloc, or the value's copy constructor throwing), both
\* operands and the heap are exactly as before the call, and whatever the
\* attempt allocated has been released.
C3_CopyAssignStrong ==
  \A x \in LiveNamed, y \in LiveNamed, e \in Envs :
    LET w == RunCopyAssign(x, y, e)
    IN ~Ok(w) => (SameState(w) /\ w.na = w.nf)

C3_Witness ==
  \E x \in LiveNamed, y \in LiveNamed :
    /\ x # y /\ desc[x] \in BoxedTypes /\ desc[y] \in BoxedTypes
    /\ \E e \in Envs :
         e.fail = "ctor" /\ RunCopyAssign(x, y, e).exc = "ctor_threw"
    /\ \E e \in Envs :
         e.fail = "alloc" /\ RunCopyAssign(x, y, e).exc = "bad_alloc"

\* C4: move-constructing d from s in state S (Empty, inline-bound, boxed-
\* bound) puts d in state S holding s's former value (for a boxed value, the
\* same heap object), leaves s Empty with bool(s) false, and destroying s
\* afterwards destroys and frees nothing.
C4_MoveConstruct ==
  \A d \in FreeNamed, s \in LiveNamed :
    LET w == RunMoveConstruct(d, s)
        w2 == dtor(w, s)
    IN /\ Ok(w) /\ w.live[d]
       /\ w.desc[d] = desc[s]
       /\ ValIn(w, d) = ValOf(s)
       /\ OwnedIn(w, d) = OwnedBy(s)
       /\ w.live[s] /\ w.desc[s] = Empty /\ ~op_bool(w, s)
       /\ w.heap = heap /\ w.objs = objs
       /\ w2.heap = w.heap /\ w2.objs = w.objs /\ w2.nf = 0 /\ w2.ub = {}

C4_Witness ==
  \E d \in FreeNamed, s \in LiveNamed :
    /\ desc[s] \in BoxedTypes
    /\ RunMoveConstruct(d, s).desc[d] = desc[s]
    /\ RunMoveConstruct(d, s).desc[s] = Empty
    /\ OwnedIn(RunMoveConstruct(d, s), d) = OwnedBy(s)

\* C5: invoking a container in the Empty state, however that state was
\* reached, fails with bad_function_call and never reads the storage cell.
C5_EmptyInvoke ==
  \A x \in LiveNamed, arg \in Args :
    desc[x] = Empty =>
      LET w == RunInvoke(x, arg)
      IN w.exc = "bad_function_call" /\ ~w.rd /\ w.ub = {}

\* an Empty container whose cell holds the stale bytes of a pointer
C5_Witness ==
  \E x \in LiveNamed :
    /\ desc[x] = Empty /\ cell[x].tag = "ptr"
    /\ RunInvoke(x, 0).exc = "bad_function_call"
\* the statements that rebind, assign to or destroy x, run now
\* (a move-assignment from y is left out: it is meant to change y)
MutationsOf(x, y) ==
  UNION {{RunAssignValue(x, i[1], i[2], e) : e \in BindEnvs(i[1])} :
          i \in Types \X Vals}
  \cup {RunCopyAssign(x, i[1], i[2]) : i \in LiveNamed \X Envs}
  \cup {RunMoveAssign(x, z) : z \in LiveNamed \ {y}}
  \cup {RunDestroy(x)}

\* slot s holds in w the value, and gives the invocation results, it has now
Untouched(w, s) ==
  /\ SameSlot(w, s)
  /\ \A arg \in Args : InvokeIn(w, s, arg) = InvokeIn(World(1, NoEnv), s, arg)

\* C6: copy-constructing c from s in state S puts c in the same state S with
\* an equal value that it owns independently (for a boxed value, another heap
\* object) and leaves s unchanged; rebinding, assigning to or destroying one
\* of two containers leaves the other's value and invocation results
\* unchanged.
C6_CopyIndependent ==
  /\ \A c \in FreeNamed, s \in LiveNamed, e \in Envs :
       LET w == RunCopyConstruct(c, s, e)
       IN Ok(w) =>
            /\ w.live[c] /\ w.desc[c] = desc[s]
            /\ ValIn(w, c) = ValOf(s)
            /\ Untouched(w, s)
            /\ \A arg \in Args : InvokeIn(w, c, arg) = InvokeIn(w, s, arg)
            /\ OwnedBy(s) # Null =>
                 /\ OwnedIn(w, c) # Null
                 /\ OwnedIn(w, c) # OwnedIn(w, s)
            /\ LiveAddrs(w.heap) = LiveAddrs(heap) \cup
                 (IF OwnedBy(s) # Null THEN {OwnedIn(w, c)} ELSE {})
  /\ \A x \in LiveNamed :
       \A y \in LiveNamed \ {x} :
         \A w \in MutationsOf(x, y) : Untouched(w, y)

\* a copy and its original, both boxed, of which one can be rebound
C6_Witness ==
  \E c \in FreeNamed, s \in LiveNamed, e \in Envs :
    LET w == RunCopyConstruct(c, s, e)
    IN /\ desc[s] \in BoxedTypes /\ Ok(w)
       /\ w.desc[c] = desc[s] /\ ValIn(w, c) = ValOf(s)
       /\ OwnedIn(w, c) # OwnedBy(s)
       /\ ValIn(dtor(w, s), c) = ValOf(s)

\* C7: when copy-construction from a bound container fails (bad_alloc, or
\* the value's copy constructor throwing), no new container comes to life,
\* the source and the rest of the program state are unchanged, and no heap
\* object allocated for the attempt remains allocated.
C7_CopyConstructFails ==
  \A c \in FreeNamed, s \in LiveNamed, e \in Envs :
    LET w == RunCopyConstruct(c, s, e)
    IN ~Ok(w) =>
         /\ ~w.live[c]
         /\ SameState(w)
         /\ w.na = w.nf
         /\ LiveAddrs(w.heap) = LiveAddrs(heap)

C7_Witness ==
  \E c \in FreeNamed, s \in LiveNamed :
    /\ desc[s] \in BoxedTypes
    /\ \E e \in Envs :
         /\ e.fail = "ctor"
         /\ RunCopyConstruct(c, s, e).exc = "ctor_threw"
         /\ RunCopyConstruct(c, s, e).na = 1
    /\ \E e \in Envs :
         e.fail = "alloc" /\ RunCopyConstruct(c, s, e).exc = "bad_alloc"

\* C8: for a type that fails the inline-eligibility rule, a successful bind
\* performs exactly one heap allocation; move-construct, move-assign and
\* swap allocate nothing and do not deallocate the object of a container
\* they move from; the object is deallocated exactly once, when the
\* container that last owns it is destroyed (the destination of a move-
\* assignment gives its former object to a temporary, which is destroyed).
C8_BoxedAllocation ==
  /\ \A x \in FreeNamed, T \in BoxedTypes, v \in Vals, e \in Envs :
       LET w == RunBind(x, T, v, e)
       IN Ok(w) =>
            /\ w.na = 1 /\ w.nf = 0
            /\ OwnedIn(w, x) \in Addrs \ LiveAddrs(heap)
            /\ LiveAddrs(w.heap) = LiveAddrs(heap) \cup {OwnedIn(w, x)}
            /\ w.heap[OwnedIn(w, x)] = HeapObj(T, v)
  /\ \A x \in FreeNamed, y \in LiveNamed :
       LET w == RunMoveConstruct(x, y)
       IN w.na = 0 /\ w.nf = 0 /\ w.heap = heap
  /\ \A x \in LiveNamed, y \in LiveNamed :
       \A junk \in SwapJunk(x, y) :
         LET w == RunSwap(x, y, junk)
         IN w.na = 0 /\ w.nf = 0 /\ w.heap = heap
  /\ \A x \in LiveNamed, y \in LiveNamed :
       LET w == RunMoveAssign(x, y)
           gone == IF x # y /\ OwnedBy(x) # Null THEN {OwnedBy(x)} ELSE {}
       IN /\ w.na = 0 /\ w.nf = Cardinality(gone)
          /\ LiveAddrs(w.heap) = LiveAddrs(heap) \ gone
          /\ OwnedIn(w, x) = OwnedBy(y)
          /\ \A p \in LiveAddrs(w.heap) : w.heap[p] = heap[p]
  /\ \A x \in LiveNamed :
       LET w == RunDestroy(x)
           gone == IF OwnedBy(x) # Null THEN {OwnedBy(x)} ELSE {}
       IN /\ w.na = 0 /\ w.nf = Cardinality(gone)
          /\ LiveAddrs(w.heap) = LiveAddrs(heap) \ gone
          /\ "delete_not_live" \notin w.ub

\* a boxed object that has been moved from one container to another and is
\* freed by destroying its last owner, not by destroying the moved-from one
C8_Witness ==
  \E x \in LiveNamed, y \in LiveNamed :
    /\ desc[x] = Empty /\ cell[x].tag = "ptr"
    /\ OwnedBy(y) = cell[x].val
    /\ RunDestroy(x).nf = 0
    /\ RunDestroy(y).nf = 1
    /\ ~RunDestroy(y).heap[OwnedBy(y)].live

\* C9: for a type that meets the inline-eligibility rule, bind cannot fail
\* and allocates nothing, target<T>() then returns the bound value, and
\* copying, moving, swapping or destroying a container that holds such a
\* type allocates nothing.
C9_InlineNoAllocation ==
  /\ \A x \in FreeNamed, T \in InlineTypes, v \in Vals, e \in Envs :
       LET w == RunBind(x, T, v, e)
       IN /\ Ok(w) /\ w.na = 0 /\ w.heap = heap
          /\ target(w, x, T).res = v
          /\ target_const(w, x, T).res = v
  /\ \A y \in LiveNamed :
       desc[y] \in InlineTypes =>
         /\ \A x \in FreeNamed, e \in Envs :
              /\ RunCopyConstruct(x, y, e).na = 0
              /\ RunMoveConstruct(x, y).na = 0
         /\ \A x \in LiveNamed, e \in Envs :
              /\ RunCopyAssign(x, y, e).na = 0
              /\ RunMoveAssign(x, y).na = 0
              /\ \A junk \in SwapJunk(x, y) :
                   /\ RunSwap(x, y, junk).na = 0
                   /\ RunSwap(y, x, junk).na = 0
         /\ RunDestroy(y).na = 0 /\ RunDestroy(y).nf = 0

\* a container bound to an inline type while nothing is on the heap, whose
\* target<T>() is its value
C9_Witness ==
  \E x \in LiveNamed :
    /\ desc[x] \in InlineTypes /\ LiveAddrs(heap) = {}
    /\ RunTarget(x, desc[x]).res = ValOf(x)
    /\ ValOf(x) \in Vals

\* C10: swap is its own inverse: for two distinct containers in any pairing
\* of states, swap(a,b); swap(a,b) restores both to their original
\* descriptors and values (and the heap to what it was).
C10_SwapInvolution ==
  \A a \in LiveNamed, b \in LiveNamed :
    LET w1 == RunSwap(a, b, 1)
        w2 == swap(w1, a, b)
    IN a # b =>
       /\ Ok(w2) /\ w2.ub = {}
       /\ w2.desc = desc /\ w2.live = live
       /\ \A s \in {a, b} :
            ValIn(w2, s) = ValOf(s) /\ OwnedIn(w2, s) = OwnedBy(s)
       /\ w2.heap = heap /\ w2.objs = objs

\* an inline-bound and a boxed-bound container that one swap exchanges
C10_Witness ==
  \E a \in LiveNamed, b \in LiveNamed :
    /\ desc[a] \in InlineTypes /\ desc[b] \in BoxedTypes
    /\ RunSwap(a, b, 1).desc[a] = desc[b]
    /\ ValIn(RunSwap(a, b, 1), b) = ValOf(a)
    /\ ValIn(swap(RunSwap(a, b, 1), a, b), a) = ValOf(a)

\* C11: self-assignment a = a, by copy and by move, leaves a's state
\* (descriptor, cell, value, invocation results) unchanged, allocates,
\* destroys and frees nothing, cannot fail, and leaks nothing.
C11_SelfAssign ==
  \A a \in LiveNamed :
    /\ \A e \in Envs :
         LET w == RunCopyAssign(a, a, e)
         IN /\ Ok(w) /\ w.ub = {}
            /\ SameState(w) /\ Untouched(w, a)
            /\ w.na = 0 /\ w.nf = 0
    /\ LET w == RunMoveAssign(a, a)
       IN /\ Ok(w) /\ w.ub = {}
          /\ SameState(w) /\ Untouched(w, a)
          /\ w.na = 0 /\ w.nf = 0

\* a boxed-bound container assigned to itself while the allocator would
\* fail: nothing is copied, so nothing fails
C11_Witness ==
  \E a \in LiveNamed, e \in Envs :
    /\ desc[a] \in BoxedTypes /\ e.fail = "alloc"
    /\ RunCopyAssign(a, a, e).exc = "none"
    /\ OwnedIn(RunCopyAssign(a, a, e), a) = OwnedBy(a)
    /\ OwnedIn(RunMoveAssign(a, a), a) = OwnedBy(a)
    /\ ValIn(RunMoveAssign(a, a), a) \in Vals

\* C12: target<T>() returns the stored value if and only if the container
\* is non-empty and its active descriptor is T's descriptor; for an Empty
\* container and for every type other than the bound one (also one of the
\* same layout) it returns null; the mutable and the const accessor agree;
\* neither changes the program state.
C12_TargetIff ==
  \A x \in LiveNamed, T \in Types :
    LET w == RunTarget(x, T)
        wc == RunTargetConst(x, T)
    IN /\ (w.res # Null) <=> (desc[x] # Empty /\ desc[x] = T)
       /\ w.res # Null => w.res = ValOf(x)
       /\ desc[x] = Empty => w.res = Null
       /\ desc[x] # T => w.res = Null
       /\ wc.res = w.res
       /\ Ok(w) /\ w.ub = {} /\ SameState(w)
       /\ Ok(wc) /\ wc.ub = {} /\ SameState(wc)

\* a container bound to one of two distinct types of identical layout:
\* target of its own type is its value, target of the other type is null
C12_Witness ==
  \E x \in LiveNamed, U \in Types :
    /\ desc[x] # Empty /\ U # desc[x]
    /\ SizeOf(U) = SizeOf(desc[x]) /\ fits_small(U) = fits_small(desc[x])
    /\ RunTarget(x, desc[x]).res = ValOf(x) /\ ValOf(x) \in Vals
    /\ RunTarget(x, U).res = Null

\* the container in slot x owns a callable: destroying it destroys exactly
\* one value (an in-place object, or a heap object that is freed)
OwnsCallable(x) ==
  LET w == RunDestroy(x)
  IN (objs - w.objs) + w.nf = 1

\* C13: in every reachable state bool(c) is true if and only if c's active
\* descriptor is not the empty descriptor, which is exactly when c owns a
\* callable (it can be invoked without bad_function_call, and destroying it
\* destroys one value); stale bytes in the cell of a moved-from or
\* swapped-out container never make it report non-empty.
C13_BoolIffBound ==
  \A c \in LiveNamed :
    /\ RunBool(c) <=> desc[c] # Empty
    /\ RunBool(c) <=> OwnsCallable(c)
    /\ RunBool(c) <=> ValOf(c) \in Vals
    /\ \A arg \in Args :
         RunBool(c) <=> RunInvoke(c, arg).exc # "bad_function_call"
    /\ (desc[c] = Empty /\ cell[c].tag # "uninit") => ~RunBool(c)

\* a moved-from container whose cell still holds the bytes of a pointer to
\* a live heap object that another, non-empty container owns
C13_Witness ==
  \E c \in LiveNamed, o \in LiveNamed :
    /\ desc[c] = Empty /\ cell[c].tag = "ptr" /\ heap[cell[c].val].live
    /\ ~RunBool(c)
    /\ OwnedBy(o) = cell[c].val /\ RunBool(o)

\* descriptor d matches what cell loc holds in w: the empty descriptor
\* matches anything, a type's descriptor a live value of that type (in the
\* cell, or in the heap object the cell points to)
Matches(d, w, loc) ==
  d = Empty \/ RefLive(d, w, get(d, w, loc))

\* number of in-place objects destroyed, net, between now and w
Destroyed(w) == objs - w.objs

\* C14: for two distinct containers A and B in any combination of Empty,
\* inline-bound and boxed-bound states, A.swap(B) leaves A with B's former
\* descriptor and value and B with A's former descriptor and value (a boxed
\* value staying in its heap object), and each of the three move steps is
\* dispatched through the descriptor that matches the content of the cell
\* it moves from at the time of that step.
C14_SwapExchanges ==
  \A A \in LiveNamed, B \in LiveNamed :
    LET w0 == World(1, NoEnv)
        w1 == move(w0.desc[B], w0, B, SwapBuf)
        w2 == move(w1.desc[A], w1, A, B)
        w == RunSwap(A, B, 1)
    IN A # B =>
       /\ Ok(w) /\ w.ub = {}
       /\ w.desc[A] = desc[B] /\ w.desc[B] = desc[A]
       /\ ValIn(w, A) = ValOf(B) /\ ValIn(w, B) = ValOf(A)
       /\ OwnedIn(w, A) = OwnedBy(B) /\ OwnedIn(w, B) = OwnedBy(A)
       /\ w.live = live /\ w.heap = heap /\ w.objs = objs
       /\ w.cell[SwapBuf].tag # "obj"
       /\ Matches(w0.desc[B], w0, B)
       /\ Matches(w1.desc[A], w1, A)
       /\ Matches(w2.desc[B], w2, SwapBuf)

\* an inline-bound and a boxed-bound container holding different values,
\* exchanged by one swap
C14_Witness ==
  \E A \in LiveNamed, B \in LiveNamed :
    LET w == RunSwap(A, B, 1)
    IN /\ A # B /\ desc[A] # Empty /\ desc[B] # Empty
       /\ desc[A] \in InlineTypes /\ desc[B] \in BoxedTypes
       /\ ValOf(A) # ValOf(B)
       /\ w.desc[A] = desc[B] /\ ValIn(w, A) = ValOf(B)
       /\ w.desc[B] = desc[A] /\ ValIn(w, B) = ValOf(A)
       /\ OwnedIn(w, A) = OwnedBy(B)

\* C15: move-assignment a = std::move(b) with a and b distinct leaves a
\* holding b's former descriptor and value (a boxed value in the same heap
\* object), leaves b Empty, destroys a's former value exactly once (freeing
\* its heap object if it was boxed), destroys nothing else, and does not
\* fail.
C15_MoveAssign ==
  \A a \in LiveNamed, b \in LiveNamed :
    LET w == RunMoveAssign(a, b)
        freed == IF OwnedBy(a) # Null THEN {OwnedBy(a)} ELSE {}
    IN a # b =>
       /\ Ok(w) /\ w.ub = {}
       /\ w.desc[a] = desc[b]
       /\ ValIn(w, a) = ValOf(b)
       /\ OwnedIn(w, a) = OwnedBy(b)
       /\ w.desc[b] = Empty /\ ~op_bool(w, b)
       /\ w.live = live
       /\ Destroyed(w) = (IF desc[a] \in InlineTypes THEN 1 ELSE 0)
       /\ w.nf = Cardinality(freed) /\ w.na = 0
       /\ LiveAddrs(w.heap) = LiveAddrs(heap) \ freed
       /\ \A p \in LiveAddrs(w.heap) : w.heap[p] = heap[p]

\* a boxed-bound a that is move-assigned from a bound b
C15_Witness ==
  \E a \in LiveNamed, b \in LiveNamed :
    LET w == RunMoveAssign(a, b)
    IN /\ a # b /\ desc[a] \in BoxedTypes /\ desc[b] # Empty
       /\ w.desc[a] = desc[b] /\ ValIn(w, a) = ValOf(b)
       /\ w.desc[b] = Empty
       /\ w.nf = 1 /\ ~w.heap[OwnedBy(a)].live

\* C16: the descriptor's move(src, dst) transfers the value from src into
\* dst and leaves nothing in src that a destroy would have to act on: in
\* inline mode the moved-from object in src has already been destroyed, in
\* boxed mode the pointer is relocated to dst and the heap object is not
\* deallocated; the moved-from container, given the empty descriptor by the
\* move constructor, is destroyed without destroying or freeing anything.
C16_DescriptorMove ==
  \A src \in LiveNamed :
    /\ \A dst \in FreeNamed \cup {SwapBuf} :
         LET d == desc[src]
             w == move(d, World(1, NoEnv), src, dst)
         IN d # Empty =>
              /\ Ok(w) /\ w.ub = {}
              /\ Val(d, w.cell[dst], w.heap) = ValOf(src)
              /\ Val(d, w.cell[dst], w.heap) \in Vals
              /\ w.heap = heap /\ w.na = 0 /\ w.nf = 0
              /\ d \in InlineTypes =>
                   /\ w.cell[src] = DeadCell
                   /\ w.cell[dst] = cell[src]
                   /\ w.objs = objs
              /\ d \in BoxedTypes =>
                   /\ w.cell[dst] = cell[src]
                   /\ w.cell[src] = cell[src]
                   /\ w.heap[w.cell[dst].val].live
    /\ \A dst \in FreeNamed :
         LET w1 == RunMoveConstruct(dst, src)
             w2 == dtor(w1, src)
         IN /\ w2.ub = {} /\ w2.nf = 0 /\ w2.objs = w1.objs
            /\ w2.heap = w1.heap
            /\ ValIn(w2, dst) = ValOf(src)

\* an inline-bound container whose value is moved into the storage of a
\* container not yet constructed, leaving a destroyed object behind
C16_Witness ==
  \E s1 \in LiveNamed, dst \in FreeNamed :
    /\ desc[s1] \in InlineTypes
    /\ move(desc[s1], World(1, NoEnv), s1, dst).cell[s1] = DeadCell
    /\ move(desc[s1], World(1, NoEnv), s1, dst).cell[dst] = cell[s1]

\* the world w with the bookkeeping of the operation that produced it
\* cleared and no failure injected into the next one
Fresh(w) ==
  [w EXCEPT !.exc = "none", !.res = 0, !.na = 0, !.nf = 0, !.rd = FALSE,
            !.addr = Null, !.fail = "none"]

\* cell c holds a T holding v in the mode the inline rule prescribes
StoredByRule(T, v, c, h) ==
  IF MeetsInlineRule(T)
    THEN c = ObjCell(T, v)
    ELSE c.tag = "ptr" /\ c.val \in Addrs /\ h[c.val] = HeapObj(T, v)

\* C17: a type is stored inline if and only if its size is strictly smaller
\* than the cell's capacity (one pointer), its alignment divides the cell's
\* alignment, and it is nothrow move-constructible and nothrow
\* move-assignable; every other type, including one whose size equals the
\* capacity, is stored boxed (one heap object); and copy, move, destroy,
\* invoke and target of a container bound to the type all act on the value
\* where that decision put it.
C17_InlineRule ==
  /\ \A T \in AllTypes : fits_small(T) <=> MeetsInlineRule(T)
  /\ \A T \in AllTypes : SizeOf(T) = PtrSize => ~fits_small(T)
  /\ \A x \in FreeNamed, T \in AllTypes, v \in Vals, e \in Envs :
       LET w == RunBind(x, T, v, e)
           f == Fresh(w)
           wc == function_copy(f, TmpAssign, x)
           wm == function_move(f, TmpAssign, x)
           wd == dtor(f, x)
       IN Ok(w) =>
            /\ w.ub = {}
            /\ StoredByRule(T, v, w.cell[x], w.heap)
            /\ w.na = (IF MeetsInlineRule(T) THEN 0 ELSE 1)
            /\ w.objs = objs + (IF MeetsInlineRule(T) THEN 1 ELSE 0)
            /\ wc.ub = {}
            /\ ~Ok(wc) => /\ wc.exc = "bad_alloc"
                          /\ ~MeetsInlineRule(T)
                          /\ FreeAddrs(w.heap) = {}
            /\ Ok(wc) =>
                 /\ StoredByRule(T, v, wc.cell[TmpAssign], wc.heap)
                 /\ StoredByRule(T, v, wc.cell[x], wc.heap)
                 /\ wc.cell[TmpAssign] # wc.cell[x] \/ MeetsInlineRule(T)
                 /\ wc.na = (IF MeetsInlineRule(T) THEN 0 ELSE 1)
            /\ Ok(wm) /\ wm.ub = {}
            /\ StoredByRule(T, v, wm.cell[TmpAssign], wm.heap)
            /\ wm.na = 0 /\ wm.nf = 0 /\ wm.objs = w.objs
            /\ wd.ub = {} /\ wd.heap = heap /\ wd.objs = objs
            /\ wd.nf = (IF MeetsInlineRule(T) THEN 0 ELSE 1)
            /\ \A arg \in Args :
                 LET wi == op_call(f, x, arg)
                 IN /\ wi.ub = {}
                    /\ <<wi.exc, wi.res>> = <<Call(T, v, arg).exc,
                                              Call(T, v, arg).res>>
            /\ target(f, x, T).res = v /\ target(f, x, T).ub = {}
            /\ target_const(f, x, T).res = v

\* a state with a free slot and a free heap address, in which a type as
\* large as the cell is bound boxed and a smaller one inline
C17_Witness ==
  \E x \in FreeNamed, e \in Envs :
    /\ LiveNamed # {}
    /\ SizeOf("Word") = PtrSize
    /\ RunBind(x, "Word", 1, e).exc = "none"
    /\ RunBind(x, "Word", 1, e).cell[x].tag = "ptr"
    /\ RunBind(x, "Word", 1, e).na = 1
    /\ RunBind(x, "Byte", 1, e).cell[x] = ObjCell("Byte", 1)
    /\ RunBind(x, "AssignThrower", 1, e).cell[x].tag = "ptr"
    /\ RunBind(x, "Closure", 1, e).cell[x].tag = "ptr"
    /\ RunBind(x, "Closure", 1, e).na = 1
    /\ function_copy(Fresh(RunBind(x, "Word", 1, e)), TmpAssign, x).exc
         = "none"
    /\ function_copy(Fresh(RunBind(x, "Word", 1, e)), TmpAssign, x)
         .cell[TmpAssign].tag = "ptr"

\* C18: swapping a container with itself leaves its descriptor and value
\* unchanged and never moves from or constructs over a storage cell whose
\* value has already been moved out and destroyed, for Empty, inline-bound
\* and boxed-bound a.
C18_SelfSwapSafe ==
  \A a \in LiveNamed, junk \in Vals :
    LET w == RunSwap(a, a, junk)
    IN /\ w.desc[a] = desc[a]
       /\ ValIn(w, a) = ValOf(a)
       /\ OwnedIn(w, a) = OwnedBy(a)
       /\ w.ub = {}

\* the live in-place objects: cells holding one
ObjCells(c) == {l \in Locs : c[l].tag = "obj"}

\* the live containers bound to an inline type
InlineBound(lv, d) == {s \in Slots : lv[s] /\ d[s] \in InlineTypes}

\* C19: every inline value constructed in a storage cell (by bind, copy,
\* move-construct, assignment or swap, swap's buffer included) is destroyed
\* exactly once: at every operation boundary the number of live inline
\* values equals the number of live containers bound to an inline type
\* (they sit in those containers' cells), no statement destroys an object
\* that is not live or constructs over one that is, and once every
\* container is destroyed no inline value remains live.
C19_InlineDestroyedOnce ==
  /\ objs = Cardinality(InlineBound(live, desc))
  /\ ObjCells(cell) = InlineBound(live, desc)
  /\ \A w \in Outcomes :
       /\ "destroy_dead_object" \notin w.ub
       /\ "overwrite_live_object" \notin w.ub
       /\ Ok(w) => /\ w.objs = Cardinality(InlineBound(w.live, w.desc))
                   /\ ObjCells(w.cell) = InlineBound(w.live, w.desc)
  /\ (\A s \in Slots : ~live[s]) => objs = 0 /\ ObjCells(cell) = {}

\* two live inline-bound containers of different types: destroying one or
\* move-assigning one to the other leaves one value, swapping them two
C19_Witness ==
  \E x \in LiveNamed, y \in LiveNamed :
    /\ x # y /\ desc[x] \in InlineTypes /\ desc[y] \in InlineTypes
    /\ desc[x] # desc[y] /\ objs = 2
    /\ RunDestroy(x).objs = 1
    /\ RunSwap(x, y, 1).objs = 2
    /\ RunMoveAssign(x, y).objs = 1

\* C20: invoking a container never changes the container's own state:
\* whether the call returns the callable's result, propagates the
\* callable's exception or fails with bad_function_call, the descriptor,
\* the cell, the value and the owned heap object are the same afterwards
\* (nothing is allocated or freed), so a second invocation gives what it
\* would have given without the first.
C20_InvokeFrame ==
  \A x \in LiveNamed, arg \in Args :
    LET w == RunInvoke(x, arg)
    IN /\ SameState(w)
       /\ w.na = 0 /\ w.nf = 0 /\ w.ub = {}
       /\ OwnedIn(w, x) = OwnedBy(x) /\ ValIn(w, x) = ValOf(x)
       /\ desc[x] = Empty => w.exc = "bad_function_call"
       /\ desc[x] # Empty =>
            /\ w.exc = Call(desc[x], ValOf(x), arg).exc
            /\ w.res = Call(desc[x], ValOf(x), arg).res
       /\ \A arg2 \in Args :
            InvokeIn(w, x, arg2) = InvokeIn(World(1, NoEnv), x, arg2)

\* a bound container whose callable throws on one argument and returns on
\* another, and an Empty one
C20_Witness ==
  \E x \in LiveNamed, y \in LiveNamed :
    /\ desc[x] = "Thrower" /\ desc[y] = Empty
    /\ RunInvoke(x, 0).exc = "callable_threw"
    /\ RunInvoke(x, 1).exc = "none" /\ RunInvoke(x, 1).res = ValOf(x) + 1
    /\ RunInvoke(y, 0).exc = "bad_function_call"
====
